---- MODULE Spec2Model ----
(***************************************************************************)
(* Mobile IPC transport (MobileIpcTransport, Reporter.ts lines 74-135):    *)
(* one multiplexer instance per process side, tunnelling IPC envelopes     *)
(* through the RPC channel under the reserved interface name "__ipc__".    *)
(*                                                                         *)
(* The frontend instance sends Send/Invoke envelopes and consumes          *)
(* fulfillments; the backend instance consumes requests and sends          *)
(* Push/Response envelopes.  JavaScript runs every handler to completion   *)
(* on its side; the two sides are separate processes and interleave.       *)
(***************************************************************************)
EXTENDS Integers, Sequences, FiniteSets, TLC

(* ------------------------------ bounds -------------------------------- *)
\* listeners one side may register
MaxListeners == 2
\* messages in total: send() calls of the two applications, and inbound
\* messages that the peer transport did not send (requests and fulfillments of
\* application interfaces, sentinel-tagged messages of others)
MaxMessages == 2

\* chunks of a response body
MaxChunks == 3

\* blocks of the largest file uploaded
MaxBlocks == 4

\* entries one reporter records
MaxEntries == 2

\* lines of the longest report file
MaxLines == 5

(* ---------------------------- data model ------------------------------ *)
IPC == "__ipc__"

Sides == {"frontend", "backend"}
Peer(s) == IF s = "frontend" THEN "backend" ELSE "frontend"

Channels == {"ui-sync", "nav"}
Payloads == {"ping", "pong"}
IpcWebSocketMessageType == {"Send", "Invoke", "Push", "Response"}

\* IpcWebSocketMessage: channel, type, payload
Envelopes == [channel : Channels, type : IpcWebSocketMessageType, payload : Payloads]

\* what the application of a side passes to send(): the frontend asks on
\* either channel and notifies, the backend answers on either channel and pushes
FrontendEnvelopes ==
  {e \in Envelopes : /\ e.payload = "ping"
                     /\ \/ e.type = "Invoke"
                        \/ e.type = "Send" /\ e.channel = "nav"}
BackendEnvelopes ==
  {e \in Envelopes : /\ e.payload = "pong"
                     /\ \/ e.type = "Response"
                        \/ e.type = "Push" /\ e.channel = "ui-sync"}
AppEnvelopes(s) == IF s = "frontend" THEN FrontendEnvelopes ELSE BackendEnvelopes

\* the JavaScript value undefined
Undefined == [undefined |-> TRUE]

\* a decoded value that is an object, but not an envelope
Misshapen == [cmd |-> "ping"]

IsEnvelope(v) ==
  /\ DOMAIN v = {"channel", "type", "payload"}
  /\ v.type \in IpcWebSocketMessageType

IsInvoke(v) == IsEnvelope(v) /\ v.type = "Invoke"

(* ------------------- marshaling and protocol codecs ------------------- *)
\* RpcMarshaling.serialize: the value as the JSON text of a wire value
serialize(value) == [objects |-> [json |-> value]]

\* a wire value whose text is not JSON
Garbage == [objects |-> [garbage |-> TRUE]]

\* RpcMarshaling.deserialize: the parsed value, or a thrown error
deserialize(wire) ==
  IF "json" \in DOMAIN wire.objects
  THEN [threw |-> FALSE, value |-> wire.objects.json]
  ELSE [threw |-> TRUE, value |-> Undefined]

\* MobileRpcProtocol.encodeRequest: the request's operation and marshaled
\* parameters, framed as a request
encodeRequest(request) ==
  [frame |-> "request",
   body |-> [operation |-> request.operation,
             parameters |-> serialize(request.parameters)]]

\* MobileRpcProtocol.encodeResponse: the fulfillment, framed as a response;
\* rawResult is the sender's local value and does not travel
encodeResponse(fulfillment) ==
  [frame |-> "response", body |-> [fulfillment EXCEPT !.rawResult = Undefined]]

\* the receiving side's decoder: the logical request or response of a frame
decode(encoded) == encoded.body

(* -------------------------- MobileIpcTransport ------------------------ *)
\* IpcInterface (interfaceName, interfaceVersion) and its client
IpcInterface == [interfaceName |-> IPC, interfaceVersion |-> "0.0.0"]

\* new MobileRpcRequest(this._client, "send", [message])
MobileRpcRequest(client, operationName, parameters) ==
  [operation |-> [interfaceDefinition |-> client.interfaceName,
                  operationName |-> operationName,
                  interfaceVersion |-> client.interfaceVersion],
   parameters |-> parameters]

SendRoute_ElseToFrontend(message) ==
  IF message.type = "Send" \/ message.type = "Invoke" THEN "toBackend"
  ELSE "toFrontend"

SendRoute_InvokeToFrontend(message) ==
  IF message.type = "Send" THEN "toBackend"
  ELSE IF message.type \in {"Invoke", "Push", "Response"} THEN "toFrontend"
  ELSE "none"

\* send(): the private method the envelope's type selects
SendRoute(message) ==
  IF message.type = "Send" \/ message.type = "Invoke" THEN "toBackend"
  ELSE IF message.type = "Push" \/ message.type = "Response" THEN "toFrontend"
  ELSE "none"

\* sendToBackend(): what is handed to the protocol's sendToBackend
EncodedRequest(message) ==
  encodeRequest(MobileRpcRequest(IpcInterface, "send", <<message>>))

Fulfillment_IdOfInterface(result, message) ==
  [result |-> result, rawResult |-> message, interfaceName |-> IPC,
   id |-> IPC, status |-> 0]

Fulfillment_RawResultMarshaled(result, message) ==
  [result |-> result, rawResult |-> result, interfaceName |-> IPC,
   id |-> message.channel, status |-> 0]

\* sendToFrontend(): the synthetic fulfillment around a marshaled envelope
Fulfillment(result, message) ==
  [result |-> result, rawResult |-> message, interfaceName |-> IPC,
   id |-> message.channel, status |-> 0]

\* sendToFrontend(): what is handed to the protocol's sendToFrontend
EncodedResponse(message) ==
  encodeResponse(Fulfillment(serialize(message), message))

\* element [0] of a JavaScript array
First(list) == IF list = <<>> THEN Undefined ELSE list[1]

IsIpcRequest_AnyInterface(request) == TRUE

IsIpcRequest_ByOperationName(request) == request.operation.operationName = "send"

IsIpcRequest_AndOperationName(request) ==
  /\ request.operation.interfaceDefinition = IPC
  /\ request.operation.operationName = "send"

\* consumeRequest(): the test that makes a request IPC traffic
IsIpcRequest(request) == request.operation.interfaceDefinition = IPC

IsIpcResponse_AnyInterface(response) == TRUE

\* consumeResponse(): the test that makes a fulfillment IPC traffic
IsIpcResponse(response) == response.interfaceName = IPC

\* consumeRequest(): the deserialized parameters
RequestParameters(request) == deserialize(request.parameters)

\* consumeRequest(): the message broadcast, parameter [0]
RequestMessage(request) == First(RequestParameters(request).value)

ResponseResult_ErrorSwallowed(response) ==
  [threw |-> FALSE, value |-> deserialize(response.result).value]

\* consumeResponse(): the deserialized result
ResponseResult(response) == deserialize(response.result)

ResponseMessage_FromRawResult(response) == response.rawResult

ResponseMessage_RawResultFirst(response) ==
  IF response.rawResult # Undefined THEN response.rawResult
  ELSE ResponseResult(response).value

\* consumeResponse(): the message broadcast
ResponseMessage(response) == ResponseResult(response).value

Registered_Unshift(list, handler) == <<handler>> \o list

\* listen(): this._listeners.push(handler)
Registered(list, handler) == Append(list, handler)


\* broadcast(): the for-of loop over this._listeners goes on while the live
\* array holds an element after the ones visited
HasNext(list, visited) == visited < Len(list)

(* ------------------------------- state -------------------------------- *)
VARIABLES
  listeners,   \* _listeners of each side's transport: handlers, as registered
  visiting,    \* broadcast's position on a side: 0 idle, k the listener next
  outcome,     \* a side's consumeRequest/consumeResponse call, running or last made
  deliveries,  \* the listener invocations of that call, in order
  before,      \* how the call before that one ended
  pending,     \* a side's send() calls whose async method is suspended, in call order
  settled,     \* the send() call of a side that left its async method last
  invoked,     \* the channels of the Invoke envelopes handed to the channel transport
  wire,        \* the channel transport: encoded messages in flight, per direction,
               \* each with the envelope send() was given (from)
  messages,    \* send() calls made, plus inbound messages the peer did not send
  awaiting,    \* channels of the Invokes a backend listener has seen and not answered
  disk,        \* the file at downloadToPathname
  writeStream, \* the fs.WriteStream of a downloadFile call
  download,    \* the downloadFile call and its promise
  blobUpload,  \* an AzureBlobStorage.upload call: its promise and callbacks
  fileUpload,  \* an AzureFileHandler.uploadFile call and the requests it made
  entries,     \* _entries of a PerfReporter
  files        \* the report files on disk, by name: their lines

\* the state of the two MobileIpcTransport instances and their channel
transport == <<listeners, visiting, outcome, deliveries, before, pending, settled,
               invoked, wire, messages, awaiting>>

\* the state outside the transports: AzureFileHandler, AzureBlobStorage and
\* PerfReporter
others == <<disk, writeStream, download, blobUpload, fileUpload, entries, files>>

\* what a downloadFile, upload, uploadFile or PerfReporter step leaves alone
besidesDownload == <<blobUpload, fileUpload, entries, files>>
besidesBlob == <<disk, writeStream, download, fileUpload, entries, files>>
besidesFile == <<disk, writeStream, download, blobUpload, entries, files>>
besidesReport == <<disk, writeStream, download, blobUpload, fileUpload>>

vars == <<listeners, visiting, outcome, deliveries, before, pending, settled,
          invoked, wire, messages, awaiting, disk, writeStream, download,
          blobUpload, fileUpload, entries, files>>

Directions == {"toBackend", "toFrontend"}

\* origin of an inbound message the peer transport did not send
Foreign == [foreign |-> TRUE]

NoCall ==
  [kind |-> "none", input |-> Undefined, from |-> Foreign, ret |-> "none",
   error |-> "none", entry |-> <<>>, message |-> Undefined]

NoSend ==
  [msg |-> Undefined, route |-> "none", callerSaw |-> "none", fate |-> "none",
   writes |-> 0, built |-> Undefined, disposed |-> FALSE]

\* no file at the path
Absent == [file |-> "none", size |-> 0]

\* no write stream created
NoStream == [fd |-> "none", buffered |-> 0]

\* downloadFile not called
NotCalled == [pc |-> "idle", error |-> "none", thrown |-> "none", received |-> 0,
              had |-> Absent, atRequest |-> Absent, atSettle |-> Absent]

\* two transports constructed, nothing sent or received
Constructed ==
  /\ listeners = [s \in Sides |-> <<>>]
  /\ visiting = [s \in Sides |-> 0]
  /\ outcome = [s \in Sides |-> NoCall]
  /\ deliveries = [s \in Sides |-> <<>>]
  /\ before = [s \in Sides |-> "none"]
  /\ pending = [s \in Sides |-> <<>>]
  /\ settled = [s \in Sides |-> NoSend]
  /\ invoked = {}
  /\ wire = [d \in Directions |-> <<>>]
  /\ messages = 0
  /\ awaiting = {}

\* a promise nobody has settled
Pending == [state |-> "pending", etag |-> "", reason |-> Undefined]

\* a completion callback that has not been called
NotCalledBack == [called |-> FALSE]

\* upload not called
NoBlobUpload ==
  [pc |-> "idle", gzip |-> FALSE, promise |-> Pending, pipelineError |-> Undefined,
   pipelineSaid |-> NotCalledBack, blobSaid |-> NotCalledBack, piped |-> 0]

\* uploadFile not called
NoFileUpload ==
  [pc |-> "idle", fileSize |-> 0, i |-> 0, blockList |-> <<>>, requests |-> <<>>,
   reason |-> "none"]

\* the fileName arguments of exportCSV, a name being what precedes the suffix
\* followed by the suffix when it has one
FileNames == {<<"report">>, <<"report", ".csv">>, <<"perf">>, <<"perf", ".csv">>}

DownloadIdle == disk = Absent /\ writeStream = NoStream /\ download = NotCalled
BlobIdle == blobUpload = NoBlobUpload
FileIdle == fileUpload = NoFileUpload
\* no entry recorded, and no report file: files is the directory the reports
\* go to, a record per file with its path, its text (the lines, each the
\* cells that the commas separate) and names (history), the fileName arguments
\* of the exports that appended to it
ReportIdle == entries = <<>> /\ files = {}

Init ==
  /\ Constructed
  /\ DownloadIdle
  /\ BlobIdle
  /\ FileIdle
  /\ ReportIdle

Without_Kept(seq, i) == seq

\* the sequence without its i-th element
Without(seq, i) == SubSeq(seq, 1, i - 1) \o SubSeq(seq, i + 1, Len(seq))

(* ------------------------------ listen -------------------------------- *)
\* a handler is a function object of its own; it is named by the ordinal of
\* its registration on its side
NewHandler(s) == Len(listeners[s]) + 1

\* listen(handler) called by the application outside any dispatch
listen(s) ==
  /\ visiting[s] = 0
  /\ Len(listeners[s]) < MaxListeners
  /\ listeners' = [listeners EXCEPT ![s] = Registered(@, NewHandler(s))]
  /\ UNCHANGED <<visiting, outcome, deliveries, before, pending, settled, invoked,
                 wire, messages, awaiting,
                 others>>

(* ------------------------------- send --------------------------------- *)
send_Loopback(s, message) ==
  /\ messages < MaxMessages
  /\ messages' = messages + 1
  /\ pending' = [pending EXCEPT ![s] = Append(@,
        [msg |-> message, route |-> SendRoute(message), callerSaw |-> "returned",
         fate |-> "pending", writes |-> 0,
         built |-> IF SendRoute(message) = "toBackend"
                   THEN MobileRpcRequest(IpcInterface, "send", <<message>>)
                   ELSE Undefined,
         disposed |-> FALSE])]
  /\ deliveries' = [deliveries EXCEPT ![s] =
        @ \o [k \in 1..Len(listeners[s]) |-> [h |-> listeners[s][k], msg |-> message]]]
  /\ awaiting' = IF message.type = "Response"
                 THEN awaiting \ {message.channel} ELSE awaiting
  /\ UNCHANGED <<listeners, visiting, outcome, before, settled, invoked, wire, others>>

\* send(message): starts sendToBackend or sendToFrontend, which runs up to its
\* await (sendToBackend has built its request by then), and returns; the promise
\* of the private method is dropped, so the caller sees a plain return
send(s, message) ==
  /\ messages < MaxMessages
  /\ messages' = messages + 1
  /\ LET call == [msg |-> message, route |-> SendRoute(message),
                  callerSaw |-> "returned", fate |-> "pending", writes |-> 0,
                  built |-> IF SendRoute(message) = "toBackend"
                            THEN MobileRpcRequest(IpcInterface, "send", <<message>>)
                            ELSE Undefined,
                  disposed |-> FALSE]
     IN IF call.route = "none"
        THEN /\ settled' = [settled EXCEPT ![s] = [call EXCEPT !.fate = "ignored"]]
             /\ UNCHANGED pending
        ELSE /\ pending' = [pending EXCEPT ![s] = Append(@, call)]
             /\ UNCHANGED settled
  /\ awaiting' = IF message.type = "Response"   \* the application has answered
                 THEN awaiting \ {message.channel} ELSE awaiting
  /\ UNCHANGED <<listeners, visiting, outcome, deliveries, before, invoked, wire, others>>

\* the rest of sendToBackend once encodeRequest(request) has resolved: the
\* write to the transport, then request.dispose()
sendToBackend(s, i) ==
  /\ visiting[s] = 0
  /\ i \in DOMAIN pending[s]
  /\ pending[s][i].route = "toBackend"
  /\ wire' = [wire EXCEPT !.toBackend = Append(@,
        [bytes |-> EncodedRequest(pending[s][i].msg), from |-> pending[s][i].msg])]
  /\ settled' = [settled EXCEPT ![s] =
        [pending[s][i] EXCEPT !.fate = "handed", !.writes = @ + 1,
                              !.disposed = TRUE]]
  /\ invoked' = IF pending[s][i].msg.type = "Invoke"
                THEN invoked \cup {pending[s][i].msg.channel} ELSE invoked
  /\ pending' = [pending EXCEPT ![s] = Without(@, i)]
  /\ UNCHANGED <<listeners, visiting, outcome, deliveries, before, messages,
                 awaiting,
                 others>>

\* the rest of sendToFrontend once RpcMarshaling.serialize(...) has resolved
sendToFrontend(s, i) ==
  /\ visiting[s] = 0
  /\ i \in DOMAIN pending[s]
  /\ pending[s][i].route = "toFrontend"
  /\ wire' = [wire EXCEPT !.toFrontend = Append(@,
        [bytes |-> EncodedResponse(pending[s][i].msg), from |-> pending[s][i].msg])]
  /\ settled' = [settled EXCEPT ![s] =
        [pending[s][i] EXCEPT !.fate = "handed", !.writes = @ + 1,
           !.built = Fulfillment(serialize(pending[s][i].msg), pending[s][i].msg)]]
  /\ pending' = [pending EXCEPT ![s] = Without(@, i)]
  /\ UNCHANGED <<listeners, visiting, outcome, deliveries, before, invoked,
                 messages, awaiting,
                 others>>

\* the awaited encodeRequest / serialize promise rejects: the async method's
\* own promise rejects, and nobody holds it
marshalFails(s, i) ==
  /\ visiting[s] = 0
  /\ i \in DOMAIN pending[s]
  /\ settled' = [settled EXCEPT ![s] = [pending[s][i] EXCEPT !.fate = "rejected"]]
  /\ pending' = [pending EXCEPT ![s] = Without(@, i)]
  /\ UNCHANGED <<listeners, visiting, outcome, deliveries, before, invoked, wire,
                 messages, awaiting,
                 others>>

\* the protocol's sendToBackend / sendToFrontend throws on the encoded
\* message: the async method's promise rejects, and nobody holds it
writeFails(s, i) ==
  /\ visiting[s] = 0
  /\ i \in DOMAIN pending[s]
  /\ settled' = [settled EXCEPT ![s] =
        [pending[s][i] EXCEPT !.fate = "writeFailed", !.writes = @ + 1,
           !.built = IF pending[s][i].route = "toFrontend"
                     THEN Fulfillment(serialize(pending[s][i].msg), pending[s][i].msg)
                     ELSE @]]
  /\ pending' = [pending EXCEPT ![s] = Without(@, i)]
  /\ UNCHANGED <<listeners, visiting, outcome, deliveries, before, invoked, wire,
                 messages, awaiting,
                 others>>

(* --------------------- consumeRequest / consumeResponse --------------- *)
\* the common tail of consumeRequest and consumeResponse, from the sentinel
\* test to the first listener of broadcast()
Consume(s, kind, input, from, isIpc, parsed, message) ==
  LET call == [kind |-> kind, input |-> input, from |-> from, ret |-> "false",
               error |-> "none", entry |-> listeners[s], message |-> Undefined]
  IN
  /\ deliveries' = [deliveries EXCEPT ![s] = <<>>]
  /\ before' = [before EXCEPT ![s] = outcome[s].error]
  /\ IF ~isIpc
     THEN /\ outcome' = [outcome EXCEPT ![s] = call]
          /\ UNCHANGED visiting
     ELSE IF parsed.threw
     THEN /\ outcome' = [outcome EXCEPT ![s] =
               [call EXCEPT !.ret = "threw", !.error = "deserialize"]]
          /\ UNCHANGED visiting
     ELSE IF HasNext(listeners[s], 0)
     THEN /\ outcome' = [outcome EXCEPT ![s] =
               [call EXCEPT !.ret = "running", !.message = message]]
          /\ visiting' = [visiting EXCEPT ![s] = 1]
     ELSE /\ outcome' = [outcome EXCEPT ![s] =
               [call EXCEPT !.ret = "true", !.message = message]]
          /\ UNCHANGED visiting

\* consumeRequest(request) on the backend
ConsumeRequest(request, from) ==
  Consume("backend", "request", request, from, IsIpcRequest(request),
          RequestParameters(request), RequestMessage(request))

\* consumeResponse(response) on the frontend
ConsumeResponse(response, from) ==
  Consume("frontend", "response", response, from, IsIpcResponse(response),
          ResponseResult(response), ResponseMessage(response))

consumeRequest_Preempting ==
  /\ wire.toBackend # <<>>
  /\ ConsumeRequest(decode(Head(wire.toBackend).bytes), Head(wire.toBackend).from)
  /\ wire' = [wire EXCEPT !.toBackend = Tail(@)]
  /\ UNCHANGED <<listeners, pending, settled, invoked, messages, awaiting, others>>

\* the protocol decodes the next request and offers it to consumeRequest,
\* a synchronous call made when no call of the side is on the stack
consumeRequest ==
  /\ visiting["backend"] = 0
  /\ wire.toBackend # <<>>
  /\ ConsumeRequest(decode(Head(wire.toBackend).bytes), Head(wire.toBackend).from)
  /\ wire' = [wire EXCEPT !.toBackend = Tail(@)]
  /\ UNCHANGED <<listeners, pending, settled, invoked, messages, awaiting, others>>

\* the protocol decodes the next fulfillment and offers it to consumeResponse,
\* a synchronous call made when no call of the side is on the stack
consumeResponse ==
  /\ visiting["frontend"] = 0
  /\ wire.toFrontend # <<>>
  /\ ConsumeResponse(decode(Head(wire.toFrontend).bytes), Head(wire.toFrontend).from)
  /\ wire' = [wire EXCEPT !.toFrontend = Tail(@)]
  /\ UNCHANGED <<listeners, pending, settled, invoked, messages, awaiting, others>>

(* ----------------------------- broadcast ------------------------------ *)
ListenerBehaviours == {"returns", "listens", "throws"}

invokeListener_DropsThrower(s, behaviour) ==
  /\ visiting[s] > 0
  /\ behaviour = "listens" => Len(listeners[s]) < MaxListeners
  /\ LET k == visiting[s]
         after == IF behaviour = "listens"
                  THEN Registered(listeners[s], NewHandler(s))
                  ELSE IF behaviour = "throws"
                  THEN Without(listeners[s], visiting[s])
                  ELSE listeners[s]
     IN
     /\ deliveries' = [deliveries EXCEPT ![s] = Append(@,
           [h |-> listeners[s][k], msg |-> outcome[s].message])]
     /\ listeners' = [listeners EXCEPT ![s] = after]
     /\ IF behaviour = "throws"
        THEN /\ visiting' = [visiting EXCEPT ![s] = 0]
             /\ outcome' = [outcome EXCEPT ![s].ret = "threw", ![s].error = "listener"]
        ELSE IF HasNext(after, k)
        THEN /\ visiting' = [visiting EXCEPT ![s] = k + 1]
             /\ UNCHANGED outcome
        ELSE /\ visiting' = [visiting EXCEPT ![s] = 0]
             /\ outcome' = [outcome EXCEPT ![s].ret = "true"]
  /\ awaiting' = IF s = "backend" /\ IsInvoke(outcome[s].message)
                 THEN awaiting \cup {outcome[s].message.channel}
                 ELSE awaiting
  /\ UNCHANGED <<before, pending, settled, invoked, wire, messages, others>>

\* one iteration of broadcast(): listener(message), where the listener
\* returns, calls listen() with a new handler and returns, or throws
invokeListener(s, behaviour) ==
  /\ visiting[s] > 0
  /\ behaviour = "listens" => Len(listeners[s]) < MaxListeners
  /\ LET k == visiting[s]
         after == IF behaviour = "listens"
                  THEN Registered(listeners[s], NewHandler(s))
                  ELSE listeners[s]
     IN
     /\ deliveries' = [deliveries EXCEPT ![s] = Append(@,
           [h |-> listeners[s][k], msg |-> outcome[s].message])]
     /\ listeners' = [listeners EXCEPT ![s] = after]
     /\ IF behaviour = "throws"
        THEN /\ visiting' = [visiting EXCEPT ![s] = 0]
             /\ outcome' = [outcome EXCEPT ![s].ret = "threw", ![s].error = "listener"]
        ELSE IF HasNext(after, k)
        THEN /\ visiting' = [visiting EXCEPT ![s] = k + 1]
             /\ UNCHANGED outcome
        ELSE /\ visiting' = [visiting EXCEPT ![s] = 0]
             /\ outcome' = [outcome EXCEPT ![s].ret = "true"]
  /\ awaiting' = IF s = "backend" /\ IsInvoke(outcome[s].message)
                 THEN awaiting \cup {outcome[s].message.channel}
                 ELSE awaiting
  /\ UNCHANGED <<before, pending, settled, invoked, wire, messages, others>>

(* ---------------------------- environment ----------------------------- *)
AnEnvelope == [channel |-> "ui-sync", type |-> "Invoke", payload |-> "ping"]
AReply == [channel |-> "nav", type |-> "Response", payload |-> "pong"]

\* requests of application interfaces, which share the channel
RpcRequests ==
  {[operation |-> [interfaceDefinition |-> "IModelReadRpcInterface",
                   operationName |-> op, interfaceVersion |-> "2.0.0"],
    parameters |-> serialize(<<AnEnvelope>>)] : op \in {"send", "getProps"}}

\* sentinel-tagged requests no sendToBackend() built
OddRequests ==
  {[operation |-> [interfaceDefinition |-> IPC, operationName |-> "send",
                   interfaceVersion |-> "0.0.0"],
    parameters |-> p] : p \in {Garbage, serialize(<<Misshapen>>), serialize(<<>>)}}
  \cup
  {[operation |-> [interfaceDefinition |-> IPC, operationName |-> "other",
                   interfaceVersion |-> "0.0.0"],
    parameters |-> serialize(<<AnEnvelope>>)]}

\* fulfillments of application interfaces
RpcResponses ==
  {[result |-> serialize(AReply), rawResult |-> Undefined,
    interfaceName |-> "IModelReadRpcInterface", id |-> "nav", status |-> 0]}

\* sentinel-tagged fulfillments no sendToFrontend() built, one of them with
\* a rawResult that is not its result
OddResponses ==
  {[result |-> r, rawResult |-> Undefined, interfaceName |-> IPC,
    id |-> "ui-sync", status |-> 0] : r \in {Garbage, serialize(Misshapen), serialize(AReply)}}
  \cup
  {[result |-> serialize(AReply), rawResult |-> AnEnvelope, interfaceName |-> IPC,
    id |-> "ui-sync", status |-> 0]}

\* a request arrives at the backend that the frontend transport did not send
otherRequest(request) ==
  /\ messages < MaxMessages
  /\ messages' = messages + 1
  /\ visiting["backend"] = 0
  /\ ConsumeRequest(request, Foreign)
  /\ UNCHANGED <<listeners, pending, settled, invoked, wire, awaiting, others>>

\* a fulfillment arrives at the frontend that the backend transport did not send
otherResponse(response) ==
  /\ messages < MaxMessages
  /\ messages' = messages + 1
  /\ visiting["frontend"] = 0
  /\ ConsumeResponse(response, Foreign)
  /\ UNCHANGED <<listeners, pending, settled, invoked, wire, awaiting, others>>

(* --------------------------- specifications --------------------------- *)
\* the two transports with any application traffic and any inbound message
Next ==
  \/ \E s \in Sides : listen(s)
  \/ \E s \in Sides : \E e \in AppEnvelopes(s) : send(s, e)
  \/ \E s \in Sides : \E i \in 1..MaxMessages : sendToBackend(s, i)
  \/ \E s \in Sides : \E i \in 1..MaxMessages : sendToFrontend(s, i)
  \/ \E s \in Sides : \E i \in 1..MaxMessages : marshalFails(s, i)
  \/ \E s \in Sides : \E i \in 1..MaxMessages : writeFails(s, i)
  \/ consumeRequest
  \/ consumeResponse
  \/ \E s \in Sides : \E b \in ListenerBehaviours : invokeListener(s, b)
  \/ \E r \in RpcRequests \cup OddRequests : otherRequest(r)
  \/ \E r \in RpcResponses \cup OddResponses : otherResponse(r)

Spec == Init /\ [][Next]_vars

\* The exchange of spec 4.1: the two transports are the only senders of
\* sentinel-tagged messages, and the backend application sends a Response
\* only as the reply to an Invoke that one of its listeners has received.
exchange(s, e) ==
  /\ e.type = "Response" => e.channel \in awaiting
  /\ send(s, e)

NextExchange ==
  \/ \E s \in Sides : listen(s)
  \/ \E s \in Sides : \E e \in AppEnvelopes(s) : exchange(s, e)
  \/ \E s \in Sides : \E i \in 1..MaxMessages : sendToBackend(s, i)
  \/ \E s \in Sides : \E i \in 1..MaxMessages : sendToFrontend(s, i)
  \/ \E s \in Sides : \E i \in 1..MaxMessages : marshalFails(s, i)
  \/ \E s \in Sides : \E i \in 1..MaxMessages : writeFails(s, i)
  \/ consumeRequest
  \/ consumeResponse
  \/ \E s \in Sides : \E b \in ListenerBehaviours : invokeListener(s, b)
  \/ \E r \in RpcRequests : otherRequest(r)
  \/ \E r \in RpcResponses : otherResponse(r)

SpecExchange == Init /\ [][NextExchange]_vars

\* The outbound path alone, with every encoding and write succeeding and
\* nobody consuming what is written: an async method whose awaited promise
\* has resolved is resumed by the event loop.
NextHandoff ==
  \/ \E s \in Sides : listen(s)
  \/ \E s \in Sides : \E e \in AppEnvelopes(s) : send(s, e)
  \/ \E s \in Sides : \E i \in 1..MaxMessages : sendToBackend(s, i)
  \/ \E s \in Sides : \E i \in 1..MaxMessages : sendToFrontend(s, i)

Resumed ==
  \A s \in Sides : \A i \in 1..MaxMessages :
    WF_vars(sendToBackend(s, i)) /\ WF_vars(sendToFrontend(s, i))

SpecHandoff == Init /\ [][NextHandoff]_vars /\ Resumed

\* envelopes whose type is none of the four
UntypedEnvelopes ==
  [channel : Channels, type : {"Other"}, payload : {"ping"}]

\* The two transports with applications that also pass envelopes of an
\* unknown type to send().
NextAnyType ==
  \/ \E s \in Sides : listen(s)
  \/ \E s \in Sides : \E e \in AppEnvelopes(s) \cup UntypedEnvelopes : send(s, e)
  \/ \E s \in Sides : \E i \in 1..MaxMessages : sendToBackend(s, i)
  \/ \E s \in Sides : \E i \in 1..MaxMessages : sendToFrontend(s, i)
  \/ consumeRequest
  \/ consumeResponse
  \/ \E s \in Sides : \E b \in ListenerBehaviours : invokeListener(s, b)

SpecAnyType == Init /\ [][NextAnyType]_vars

(* ------------------- AzureFileHandler.downloadFile ------------------- *)
\* a file left at the path by an earlier writer
OldFile == [file |-> "old", size |-> 1]

\* the errors the awaited request() rejects with
RequestErrors == {"ECONNRESET", "ETIMEDOUT", "404"}

\* if (fs.existsSync(downloadToPathname)) fs.unlinkSync(downloadToPathname)
unlinkIfExists(file) == IF file.file # "none" THEN Absent ELSE file

\* downloadFile(downloadUrl, downloadToPathname) up to its await: in a
\* browser it rejects at once; else it unlinks the file at the path, creates
\* the write stream, whose open is queued, and starts the request
downloadFile(isBrowser) ==
  /\ download.pc = "idle"
  /\ IF isBrowser
     THEN /\ download' = [download EXCEPT !.pc = "rejected", !.error = "browser",
                                           !.had = disk, !.atSettle = disk]
          /\ UNCHANGED <<disk, writeStream>>
     ELSE /\ disk' = unlinkIfExists(disk)
          /\ writeStream' = [fd |-> "opening", buffered |-> 0]
          /\ download' = [download EXCEPT !.pc = "requesting", !.had = disk,
                                           !.atRequest = unlinkIfExists(disk)]
  /\ UNCHANGED <<transport, besidesDownload>>

\* the stream's queued open (flags "w") completes: the file is created empty
streamOpens ==
  /\ writeStream.fd = "opening"
  /\ writeStream' = [writeStream EXCEPT !.fd = "open"]
  /\ disk' = [file |-> "new", size |-> 0]
  /\ UNCHANGED <<download, transport, besidesDownload>>

\* the request pipes a chunk of the response body into options.stream
receive ==
  /\ download.pc = "requesting"
  /\ download.received < MaxChunks
  /\ download' = [download EXCEPT !.received = @ + 1]
  /\ writeStream' = [writeStream EXCEPT !.buffered = @ + 1]
  /\ UNCHANGED <<disk, transport, besidesDownload>>

\* the open stream writes a buffered chunk through its descriptor; after an
\* unlink the descriptor's file has no name any more
flush ==
  /\ writeStream.fd = "open"
  /\ writeStream.buffered > 0
  /\ writeStream' = [writeStream EXCEPT !.buffered = @ - 1]
  /\ disk' = IF disk.file = "new" THEN [disk EXCEPT !.size = @ + 1] ELSE disk
  /\ UNCHANGED <<download, transport, besidesDownload>>

\* await request(...) throws err: the catch block unlinks the file if it
\* exists and rejects with err
requestFails(err) ==
  /\ download.pc = "requesting"
  /\ disk' = unlinkIfExists(disk)
  /\ download' = [download EXCEPT !.pc = "rejected", !.error = err, !.thrown = err,
                                   !.atSettle = unlinkIfExists(disk)]
  /\ UNCHANGED <<writeStream, transport, besidesDownload>>

\* await request(...) returns: the promise of downloadFile resolves
requestSucceeds ==
  /\ download.pc = "requesting"
  /\ download' = [download EXCEPT !.pc = "resolved", !.atSettle = disk]
  /\ UNCHANGED <<disk, writeStream, transport, besidesDownload>>

\* a download to a path where a file may exist
InitDownload ==
  /\ Constructed
  /\ disk \in {Absent, OldFile}
  /\ writeStream = NoStream
  /\ download = NotCalled
  /\ BlobIdle
  /\ FileIdle
  /\ ReportIdle

NextDownload ==
  \/ \E isBrowser \in BOOLEAN : downloadFile(isBrowser)
  \/ streamOpens
  \/ receive
  \/ flush
  \/ \E err \in RequestErrors : requestFails(err)
  \/ requestSucceeds

SpecDownload == InitDownload /\ [][NextDownload]_vars

(* ---------------------- AzureBlobStorage.upload ----------------------- *)
\* what the stream pipeline passes to its callback: undefined, or an error
PipelineErrors == {Undefined, [code |-> "EPIPE"]}

\* what the blob service passes to its callback
BlobErrors == {Undefined, [code |-> "ECONNRESET"]}
ETags == {"0x8D1", "0x8D2"}

\* new ServerError(status, message)
ServerError == [name |-> "ServerError"]

\* resolve(value) of the promise executor: the first settlement stands
resolve(promise, etag) ==
  IF promise.state = "pending"
  THEN [state |-> "resolved", etag |-> etag, reason |-> Undefined]
  ELSE promise

\* reject(reason) of the promise executor: the first settlement stands
reject(promise, reason) ==
  IF promise.state = "pending"
  THEN [state |-> "rejected", etag |-> "", reason |-> reason]
  ELSE promise

\* upload(container, name, data, options): the source stream is made and
\* ensureContainer awaited
upload(gzip) ==
  /\ blobUpload.pc = "idle"
  /\ blobUpload' = [blobUpload EXCEPT !.pc = "ensuring", !.gzip = gzip]
  /\ UNCHANGED <<transport, besidesBlob>>

\* await this.ensureContainer(container) returns, and the blob write (and,
\* for gzip, the pipeline into it) is started; or it throws, and the catch
\* block rejects with its error
ensureContainer(ok) ==
  /\ blobUpload.pc = "ensuring"
  /\ blobUpload' =
       IF ok THEN [blobUpload EXCEPT !.pc = "streaming"]
       ELSE [blobUpload EXCEPT !.pc = "failed", !.promise = reject(@, ServerError)]
  /\ UNCHANGED <<transport, besidesBlob>>

\* a chunk of the source stream reaches the blob service's stream.  With gzip
\* the pipeline moves the chunks for as long as it has not called back, also
\* after the blob service's callback (an error reported early leaves the
\* stream open); without gzip the blob service reads the source until it
\* calls back
pipe ==
  /\ blobUpload.pc = "streaming"
  /\ IF blobUpload.gzip THEN ~blobUpload.pipelineSaid.called
     ELSE ~blobUpload.blobSaid.called
  /\ blobUpload.piped < MaxChunks
  /\ blobUpload' = [blobUpload EXCEPT !.piped = @ + 1]
  /\ UNCHANGED <<transport, besidesBlob>>

\* the callback of pipeline(source, compressor, uploader, ...):
\* pipelineError = err; reject(err)
pipelineCallback(err) ==
  /\ blobUpload.pc = "streaming"
  /\ blobUpload.gzip
  /\ ~blobUpload.pipelineSaid.called
  /\ blobUpload' = [blobUpload EXCEPT !.pipelineError = err,
                                       !.promise = reject(@, err),
                                       !.pipelineSaid = [called |-> TRUE, err |-> err]]
  /\ UNCHANGED <<transport, besidesBlob>>

\* the callback of createWriteStreamToBlockBlob (gzip) or of
\* createBlockBlobFromStream
blobCallback(error, isSuccessful, etag) ==
  /\ blobUpload.pc = "streaming"
  /\ ~blobUpload.blobSaid.called
  /\ blobUpload' =
       [blobUpload EXCEPT
          !.promise =
             IF blobUpload.gzip /\ blobUpload.pipelineError # Undefined
             THEN reject(@, blobUpload.pipelineError)
             ELSE IF error # Undefined \/ ~isSuccessful
             THEN reject(@, ServerError)
             ELSE resolve(@, etag),
          !.blobSaid = [called |-> TRUE, error |-> error,
                        isSuccessful |-> isSuccessful, etag |-> etag]]
  /\ UNCHANGED <<transport, besidesBlob>>

NextUpload ==
  \/ \E gzip \in BOOLEAN : upload(gzip)
  \/ \E ok \in BOOLEAN : ensureContainer(ok)
  \/ pipe
  \/ \E err \in PipelineErrors : pipelineCallback(err)
  \/ \E error \in BlobErrors : \E isSuccessful \in BOOLEAN : \E etag \in ETags :
       blobCallback(error, isSuccessful, etag)

SpecUpload == Init /\ [][NextUpload]_vars

(* -------------------- AzureFileHandler.uploadFile --------------------- *)
\* const chunkSize = 4 * 1024 * 1024
chunkSize == 4 * 1024 * 1024

\* sizes of the file at uploadFromPathname, around the block boundaries
FileSizes ==
  {k * chunkSize + r : k \in 0..(MaxBlocks - 1), r \in {0, 1, chunkSize - 1}}
  \cup {MaxBlocks * chunkSize}

\* blockId.toString(16): the hexadecimal digits of a number
RECURSIVE toHex(_)
toHex(number) ==
  IF number < 16 THEN <<number>> ELSE toHex(number \div 16) \o <<number % 16>>

\* padStart(length, fill)
padStart(digits, length, fill) ==
  IF Len(digits) >= length THEN digits
  ELSE [k \in 1..(length - Len(digits)) |-> fill] \o digits

\* getBlockId(blockId): Base64.encode(blockId.toString(16).padStart(5, "0"))
getBlockId(blockId) == [base64 |-> padStart(toHex(blockId), 5, 0)]

moreBlocks_Inclusive(i, fileSize) == i * chunkSize <= fileSize

\* the loop condition of uploadFile: i * chunkSize < fileSize
moreBlocks(i, fileSize) == i * chunkSize < fileSize

\* uploadFile(uploadUrlString, uploadFromPathname) up to `await open`:
\* rejects in a browser and when the file is not found, else takes the file's
\* size, starts to open the file and returns to the event loop
uploadFile(isBrowser, exists, fileSize) ==
  /\ fileUpload.pc = "idle"
  /\ fileUpload' =
       IF isBrowser THEN [fileUpload EXCEPT !.pc = "rejected", !.reason = "browser"]
       ELSE IF ~exists THEN [fileUpload EXCEPT !.pc = "rejected", !.reason = "not found"]
       ELSE [fileUpload EXCEPT !.pc = "open", !.fileSize = fileSize]
  /\ UNCHANGED <<transport, besidesFile>>

\* the open of the file is done: uploadFile goes on to the loop, or the open
\* has failed (the file is gone by now, no descriptor is left) and the
\* promise rejects with no request made
open(ok) ==
  /\ fileUpload.pc = "open"
  /\ fileUpload' = IF ok THEN [fileUpload EXCEPT !.pc = "loop"]
                   ELSE [fileUpload EXCEPT !.pc = "rejected", !.reason = "open"]
  /\ UNCHANGED <<transport, besidesFile>>

\* the loop test holds and uploadChunk is entered, up to `await read`: the
\* read of block i is started and the call returns to the event loop
uploadChunk ==
  /\ fileUpload.pc = "loop"
  /\ moreBlocks(fileUpload.i, fileUpload.fileSize)
  /\ fileUpload' = [fileUpload EXCEPT !.pc = "read"]
  /\ UNCHANGED <<transport, besidesFile>>

\* the read of block i is done: uploadChunk makes the PUT of the block and
\* awaits it, or the read has failed (the path is a directory) and the promise
\* rejects with the block's request not made
read(ok) ==
  /\ fileUpload.pc = "read"
  /\ fileUpload' =
       IF ok
       THEN [fileUpload EXCEPT
               !.pc = "chunk",
               !.requests = Append(@, [comp |-> "block",
                                       blockid |-> getBlockId(fileUpload.i),
                                       completed |-> fileUpload.i])]
       ELSE [fileUpload EXCEPT !.pc = "rejected", !.reason = "read"]
  /\ UNCHANGED <<transport, besidesFile>>

\* the request of uploadChunk returns: the block id joins the list, ++i
chunkUploaded ==
  /\ fileUpload.pc = "chunk"
  /\ fileUpload' = [fileUpload EXCEPT
        !.pc = "loop",
        !.blockList = Append(@, getBlockId(fileUpload.i)),
        !.i = @ + 1]
  /\ UNCHANGED <<transport, besidesFile>>

\* the request of uploadChunk throws: uploadFile's promise rejects
chunkFails ==
  /\ fileUpload.pc = "chunk"
  /\ fileUpload' = [fileUpload EXCEPT !.pc = "rejected", !.reason = "block"]
  /\ UNCHANGED <<transport, besidesFile>>

\* after the loop: the PUT of the block list
commit ==
  /\ fileUpload.pc = "loop"
  /\ ~moreBlocks(fileUpload.i, fileUpload.fileSize)
  /\ fileUpload' = [fileUpload EXCEPT
        !.pc = "commit",
        !.requests = Append(@, [comp |-> "blocklist", body |-> fileUpload.blockList,
                                completed |-> fileUpload.i])]
  /\ UNCHANGED <<transport, besidesFile>>

\* the block list request returns or throws
committed(ok) ==
  /\ fileUpload.pc = "commit"
  /\ fileUpload' = IF ok THEN [fileUpload EXCEPT !.pc = "resolved"]
                   ELSE [fileUpload EXCEPT !.pc = "rejected", !.reason = "blocklist"]
  /\ UNCHANGED <<transport, besidesFile>>

NextUploadFile ==
  \/ \E isBrowser \in BOOLEAN : \E exists \in BOOLEAN : \E fileSize \in FileSizes :
       uploadFile(isBrowser, exists, fileSize)
  \/ \E ok \in BOOLEAN : open(ok)
  \/ uploadChunk
  \/ \E ok \in BOOLEAN : read(ok)
  \/ chunkUploaded
  \/ chunkFails
  \/ commit
  \/ \E ok \in BOOLEAN : committed(ok)

SpecUploadFile == Init /\ [][NextUploadFile]_vars

(* ----------------------------- PerfReporter --------------------------- *)
\* the arguments of addEntry: info is any value, an object or a string here
Infos == {[type |-> "object", text |-> ""], [type |-> "string", text |-> "cold"]}
Entries ==
  [testSuite : {"Perf"}, testName : {"open", "close"}, valueName : {"time"},
   value : {0, 15}, info : Infos]

\* what a template literal makes of info: String(info)
String(info) == IF info.type = "object" THEN "[object Object]" ELSE info.text

\* fileName.endsWith(".csv")
endsWith(fileName) == Len(fileName) > 0 /\ fileName[Len(fileName)] = ".csv"

\* the name exportCSV writes to
withSuffix(fileName) == IF ~endsWith(fileName) THEN Append(fileName, ".csv") ELSE fileName

\* fs.existsSync(fileName)
existsSync_Never(fileName) == FALSE
existsSync(fileName) == \E f \in files : f.path = fileName

\* the file of a directory at a path, empty when there is none
fileAt(dir, fileName) ==
  IF \E f \in dir : f.path = fileName
  THEN CHOOSE f \in dir : f.path = fileName
  ELSE [path |-> fileName, text |-> <<>>, names |-> {}]

\* the header line
Header == <<"Test Suite", "Test Name", "Value Name", "Value", "Info">>

\* the line of one entry
Row(entry) ==
  <<entry.testName, entry.testSuite, entry.valueName, ToString(entry.value),
    String(entry.info)>>

\* finalReport: the header when the file is absent, then a line per entry
finalReport(fileName) ==
  (IF ~existsSync(fileName) THEN <<Header>> ELSE <<>>)
    \o [k \in 1..Len(entries) |-> Row(entries[k])]

\* fs.appendFileSync(fileName, data): creates the file when it is absent
appendFileSync(fileName, data) ==
  {f \in files : f.path # fileName}
    \cup {[fileAt(files, fileName) EXCEPT !.text = @ \o data]}

addEntry(testSuite, testName, valueName, value, info) ==
  /\ Len(entries) < MaxEntries
  /\ entries' = Append(entries,
       [testSuite |-> testSuite, testName |-> testName, valueName |-> valueName,
        value |-> value, info |-> info])
  /\ UNCHANGED <<transport, besidesReport, files>>

exportCSV(fileName) ==
  LET name == withSuffix(fileName)
      data == finalReport(name)
      written == appendFileSync(name, data) IN
  /\ Len(fileAt(files, name).text) + Len(data) <= MaxLines
  /\ files' = {IF f.path = name THEN [f EXCEPT !.names = @ \cup {fileName}] ELSE f :
                 f \in written}
  /\ UNCHANGED <<transport, besidesReport, entries>>

NextReport ==
  \/ \E e \in Entries : addEntry(e.testSuite, e.testName, e.valueName, e.value, e.info)
  \/ \E fileName \in FileNames : exportCSV(fileName)

SpecReport == Init /\ [][NextReport]_vars

(* ------------------------------- claims ------------------------------- *)
\* C1: a request whose operation.interfaceDefinition is not the sentinel is
\* declined by consumeRequest: it returns false, no listener is invoked,
\* nothing is deserialized out of it, and the request is as it arrived,
\* whatever listeners are registered and whatever came before.
C1_NonInterference ==
  LET call == outcome["backend"] IN
  (call.kind = "request" /\ call.input.operation.interfaceDefinition # IPC) =>
    /\ call.ret = "false"
    /\ call.error = "none"
    /\ call.message = Undefined
    /\ deliveries["backend"] = <<>>
    /\ visiting["backend"] = 0
    /\ call.input \in RpcRequests

\* an application request shaped like an IPC call has been declined with
\* listeners registered
C1_Witness ==
  LET call == outcome["backend"] IN
  /\ call.kind = "request"
  /\ call.input.operation.interfaceDefinition # IPC
  /\ call.input.operation.operationName = "send"
  /\ call.ret = "false"
  /\ Len(listeners["backend"]) >= 2

\* C2: an envelope passed to send() on one side, encoded, carried and decoded,
\* makes the peer's consumeRequest (Send, Invoke) or consumeResponse (Push,
\* Response) broadcast an envelope equal to it in channel, type and payload.
C2_RoundTrip ==
  \A s \in Sides :
    LET call == outcome[s] IN
    call.from # Foreign =>
      /\ call.kind = (IF call.from.type \in {"Send", "Invoke"}
                      THEN "request" ELSE "response")
      /\ call.ret \in {"running", "true", "threw"}
      /\ call.error # "deserialize"
      /\ call.message = call.from
      /\ \A i \in DOMAIN deliveries[s] : deliveries[s][i].msg = call.from

\* an Invoke has reached a backend listener and a Response a frontend listener
C2_Witness ==
  /\ outcome["backend"].from # Foreign
  /\ outcome["frontend"].from # Foreign
  /\ outcome["backend"].from.type = "Invoke"
  /\ outcome["frontend"].from.type = "Response"
  /\ deliveries["backend"] # <<>>
  /\ deliveries["frontend"] # <<>>

\* the handlers invoked by the call in progress or last made on a side
Invoked(s) == [i \in DOMAIN deliveries[s] |-> deliveries[s][i].h]

\* C3: with N listeners registered before a sentinel-tagged message is
\* consumed, the message causes exactly N invocations, one per registered
\* listener, in registration order, each with the same envelope, all before
\* consumeRequest/consumeResponse returns.
C3_FanOut ==
  \A s \in Sides :
    outcome[s].ret = "true" =>
      /\ Invoked(s) = outcome[s].entry
      /\ \A i \in DOMAIN deliveries[s] : deliveries[s][i].msg = outcome[s].message

\* C4: a listener registered while a broadcast is in progress does not
\* receive the message being broadcast: every handler invoked for a message
\* was registered before the message was consumed.
C4_NoDeliveryToLateListener ==
  \A s \in Sides :
    \A i \in DOMAIN deliveries[s] :
      \E j \in DOMAIN outcome[s].entry : outcome[s].entry[j] = deliveries[s][i].h

\* C5: when marshaling of an outbound envelope fails, the caller of send()
\* observes a SerializationError, and nothing was written to the channel.
C5_SendFailsWithSerializationError ==
  \A s \in Sides :
    settled[s].fate = "rejected" =>
      /\ settled[s].callerSaw = "SerializationError"
      /\ settled[s].writes = 0

Tagged(call) ==
  \/ call.kind = "request" /\ call.input.operation.interfaceDefinition = IPC
  \/ call.kind = "response" /\ call.input.interfaceName = IPC

\* the marshaled payload of an inbound message
Payload(call) ==
  IF call.kind = "request" THEN call.input.parameters ELSE call.input.result

Malformed(call) == Tagged(call) /\ "json" \notin DOMAIN Payload(call).objects

\* the value a well-formed sentinel-tagged inbound message carries
Carried(call) ==
  LET parsed == Payload(call).objects.json IN
  IF call.kind = "response" THEN parsed
  ELSE IF Len(parsed) = 0 THEN Undefined ELSE parsed[1]

\* C6: a sentinel-tagged message whose payload fails to deserialize raises
\* one error out of the call, reaches no listener and leaves the listener
\* list as it was; the well-formed sentinel-tagged message after it is
\* broadcast to every registered listener.
C6_DecodeIsolation ==
  \A s \in Sides :
    LET call == outcome[s] IN
    /\ Malformed(call) =>
         /\ call.ret = "threw" /\ call.error = "deserialize"
         /\ deliveries[s] = <<>>
         /\ visiting[s] = 0
         /\ SubSeq(listeners[s], 1, Len(call.entry)) = call.entry
    /\ (before[s] = "deserialize" /\ Tagged(call) /\ ~Malformed(call)) =>
         /\ call.ret \in {"running", "true", "threw"}
         /\ call.error # "deserialize"
         /\ call.message = Carried(call)
         /\ call.ret = "true" =>
              \A j \in DOMAIN call.entry :
                /\ j \in DOMAIN deliveries[s]
                /\ deliveries[s][j] = [h |-> call.entry[j], msg |-> Carried(call)]

\* after a payload that failed to deserialize, an envelope has been broadcast
\* to two listeners
C6_Witness ==
  \E s \in Sides :
    /\ before[s] = "deserialize"
    /\ Tagged(outcome[s]) /\ ~Malformed(outcome[s])
    /\ IsEnvelope(Carried(outcome[s]))
    /\ outcome[s].ret = "true"
    /\ Len(deliveries[s]) >= 2

\* C7: a sentinel-tagged message whose deserialized payload has not the
\* envelope shape is not delivered to listeners: what listeners receive is
\* an envelope.
C7_OnlyEnvelopesDelivered ==
  \A s \in Sides :
    \A i \in DOMAIN deliveries[s] : IsEnvelope(deliveries[s][i].msg)

\* C8: the fulfillment that carries a Response has the Response's channel as
\* its id, and frontend listeners receive that Response on that channel only:
\* while an Invoke on channel C is out, a delivery is on C exactly when the
\* backend answered on C.
C8_Correlation ==
  LET call == outcome["frontend"] IN
  (call.kind = "response" /\ call.from # Foreign) =>
    /\ call.input.id = call.from.channel
    /\ call.message.channel = call.input.id
    /\ \A i \in DOMAIN deliveries["frontend"] :
         /\ deliveries["frontend"][i].msg.channel = call.input.id
         /\ \A c \in invoked :
              deliveries["frontend"][i].msg.channel = c <=> call.from.channel = c

\* with an Invoke out on one channel, a Response on the other channel has
\* reached a frontend listener
C8_Witness ==
  LET call == outcome["frontend"] IN
  /\ call.kind = "response" /\ call.from # Foreign
  /\ call.from.type = "Response"
  /\ invoked # {}
  /\ call.from.channel \notin invoked
  /\ deliveries["frontend"] # <<>>

\* C9: in an exchange over the in-order channel, frontend listeners observe a
\* Response on channel C only after the frontend transport has handed an
\* Invoke on channel C to the channel.
C9_ResponseAfterInvoke ==
  \A i \in DOMAIN deliveries["frontend"] :
    LET m == deliveries["frontend"][i].msg IN
    (IsEnvelope(m) /\ m.type = "Response") => m.channel \in invoked

\* a Response has reached a frontend listener
C9_Witness ==
  \E i \in DOMAIN deliveries["frontend"] :
    /\ IsEnvelope(deliveries["frontend"][i].msg)
    /\ deliveries["frontend"][i].msg.type = "Response"

\* C10: in an exchange, backend listeners are invoked with the envelope the
\* frontend sent and frontend listeners with the envelope the backend sent and
\* no other: send() delivers nothing to the sender's own listeners, and a
\* message is delivered to a listener once.
C10_Exchange ==
  \A s \in Sides :
    /\ \A i \in DOMAIN deliveries[s] :
         /\ outcome[s].from # Foreign
         /\ deliveries[s][i].msg = outcome[s].from
         /\ deliveries[s][i].msg \in AppEnvelopes(Peer(s))
         /\ \A j \in DOMAIN deliveries[s] :
              deliveries[s][i].h = deliveries[s][j].h => i = j
    /\ outcome[s].ret = "true" =>
         \A j \in DOMAIN outcome[s].entry :
           \E i \in DOMAIN deliveries[s] : deliveries[s][i].h = outcome[s].entry[j]

\* the Invoke has reached two backend listeners and its Response two frontend
\* listeners
C10_Witness ==
  /\ outcome["backend"].ret = "true" /\ outcome["frontend"].ret = "true"
  /\ Len(deliveries["backend"]) >= 2 /\ Len(deliveries["frontend"]) >= 2
  /\ IsInvoke(deliveries["backend"][1].msg)
  /\ deliveries["frontend"][1].msg =
       [channel |-> deliveries["backend"][1].msg.channel, type |-> "Response",
        payload |-> "pong"]

\* C11: a fulfillment whose interfaceName is not the sentinel is declined by
\* consumeResponse: it returns false, no listener is invoked, nothing is
\* deserialized out of it and it is as it arrived. A fulfillment whose
\* interfaceName is the sentinel is never declined: the call goes on to
\* deserialize and broadcast, and when it returns, it returns true with
\* every listener registered at its start invoked.
C11_ResponseSentinel ==
  LET call == outcome["frontend"] IN
  call.kind = "response" =>
    IF call.input.interfaceName # IPC
    THEN /\ call.ret = "false"
         /\ call.error = "none"
         /\ call.message = Undefined
         /\ deliveries["frontend"] = <<>>
         /\ visiting["frontend"] = 0
         /\ call.input \in RpcResponses
    ELSE /\ call.ret # "false"
         /\ call.ret = "true" =>
              /\ call.error = "none"
              /\ visiting["frontend"] = 0
              /\ \A j \in DOMAIN call.entry :
                   /\ j \in DOMAIN deliveries["frontend"]
                   /\ deliveries["frontend"][j].h = call.entry[j]

\* an application fulfillment has been declined with two listeners registered
C11_Witness ==
  LET call == outcome["frontend"] IN
  /\ call.kind = "response"
  /\ call.input.interfaceName # IPC
  /\ call.ret = "false"
  /\ Len(call.entry) >= 2

\* C12: when the channel transport's write fails during an outbound send,
\* the caller of send() observes the failure (a TransportError), and the
\* write is not tried again: one transport write at most per send() call.
C12_WriteFailurePropagated ==
  \A s \in Sides :
    settled[s].fate = "writeFailed" =>
      /\ settled[s].callerSaw = "TransportError"
      /\ settled[s].writes <= 1

\* C13: the listener list only grows, and only by listen(): a step appends
\* one new handler at the end of a side's list or leaves the list as it is;
\* send(), the completion or failure of a send, the consumption of an
\* inbound message and a call that ends by exception leave it as it is; so
\* the list is always the handlers in the order of their registration.
C13_AppendOnly ==
  [][\A s \in Sides :
       /\ \/ listeners'[s] = listeners[s]
          \/ listeners'[s] = Append(listeners[s], Len(listeners[s]) + 1)
       /\ (\/ messages' # messages
           \/ pending' # pending
           \/ settled' # settled
           \/ wire' # wire
           \/ outcome'[s].input # outcome[s].input
           \/ outcome'[s].ret = "threw" /\ outcome[s].ret # "threw")
          => listeners'[s] = listeners[s]
       /\ \A i \in DOMAIN listeners'[s] : listeners'[s][i] = i]_vars

\* two handlers are registered on a side where a listener has thrown and a
\* send has failed
C13_Witness ==
  \E s \in Sides :
    /\ listeners[s] = <<1, 2>>
    /\ outcome[s].error = "listener"
    /\ settled[s].fate \in {"rejected", "writeFailed"}

\* C14: inbound handling runs to completion per message: while the
\* broadcast of one inbound message is in progress on a side, the side's
\* call stays the call for that message and the only delivery made is the
\* next one of that message, so every delivery of a call carries the call's
\* message and the next inbound message is consumed after the last of them.
C14_RunToCompletion ==
  [][\A s \in Sides :
       /\ visiting[s] > 0 =>
            /\ outcome'[s].input = outcome[s].input
            /\ outcome'[s].message = outcome[s].message
            /\ \/ deliveries'[s] = deliveries[s]
               \/ deliveries'[s] = Append(deliveries[s],
                     [h |-> listeners[s][visiting[s]], msg |-> outcome[s].message])
       /\ \A i \in DOMAIN deliveries'[s] :
            deliveries'[s][i].msg = outcome'[s].message]_vars

\* the backend broadcast of one message has made its first of two deliveries
\* while the next inbound message waits
C14_Witness ==
  /\ visiting["backend"] = 2
  /\ Len(deliveries["backend"]) = 1
  /\ wire.toBackend # <<>>

\* C15: when the request of downloadFile fails, the promise rejects with the
\* request's error, and no file, complete or partial, is at downloadToPathname
\* at the rejection or remains there after it; and once the download is under
\* way, the file that was at the path before the call is not there: it was
\* unlinked before the request started.
C15_DownloadCleansUp ==
  /\ (download.pc = "rejected" /\ download.thrown # "none") =>
       /\ download.error = download.thrown
       /\ download.atSettle = Absent
       /\ disk = Absent
  /\ (download.pc \in {"requesting", "resolved"} \/ download.thrown # "none") =>
       /\ download.atRequest = Absent
       /\ disk.file # "old"

\* C16: send() of a Send or Invoke envelope builds one request to the
\* sentinel interface, operation "send", with the envelope as its only
\* parameter; what reaches the transport's sendToBackend is the encoding of
\* that request, written once; nothing of these types is handed to
\* sendToFrontend.
C16_RouteToBackend ==
  /\ \A s \in Sides :
       LET call == settled[s] IN
       (call.fate # "none" /\ call.msg.type \in {"Send", "Invoke"}) =>
         /\ call.route = "toBackend"
         /\ call.built =
              [operation |-> [interfaceDefinition |-> "__ipc__",
                              operationName |-> "send",
                              interfaceVersion |-> "0.0.0"],
               parameters |-> <<call.msg>>]
         /\ call.writes = IF call.fate = "rejected" THEN 0 ELSE 1
  /\ \A s \in Sides : \A i \in DOMAIN pending[s] :
       pending[s][i].msg.type \in {"Send", "Invoke"} =>
         pending[s][i].route = "toBackend" /\ pending[s][i].writes = 0
  /\ \A i \in DOMAIN wire.toBackend :
       LET e == wire.toBackend[i] IN
       /\ e.from.type \in {"Send", "Invoke"}
       /\ e.bytes = encodeRequest(
            [operation |-> [interfaceDefinition |-> "__ipc__",
                            operationName |-> "send",
                            interfaceVersion |-> "0.0.0"],
             parameters |-> <<e.from>>])
  /\ \A i \in DOMAIN wire.toFrontend :
       wire.toFrontend[i].from.type \notin {"Send", "Invoke"}

\* an Invoke and a Send have been handed to sendToBackend
C16_Witness ==
  /\ settled["frontend"].fate = "handed"
  /\ Len(wire.toBackend) = 2
  /\ wire.toBackend[1].from.type = "Invoke"
  /\ wire.toBackend[2].from.type = "Send"

\* C17: send() of a Push or Response envelope builds one fulfillment with
\* the marshaled envelope as result, the envelope itself as rawResult, the
\* envelope's channel as id, the sentinel as interfaceName and status 0;
\* what reaches the transport's sendToFrontend is the encoding of that
\* fulfillment, written once; nothing of these types is handed to
\* sendToBackend.
C17_RouteToFrontend ==
  /\ \A s \in Sides :
       LET call == settled[s] IN
       (call.fate # "none" /\ call.msg.type \in {"Push", "Response"}) =>
         /\ call.route = "toFrontend"
         /\ call.fate # "rejected" =>
              call.built = [result |-> serialize(call.msg), rawResult |-> call.msg,
                            interfaceName |-> "__ipc__", id |-> call.msg.channel,
                            status |-> 0]
         /\ call.writes = IF call.fate = "rejected" THEN 0 ELSE 1
  /\ \A s \in Sides : \A i \in DOMAIN pending[s] :
       pending[s][i].msg.type \in {"Push", "Response"} =>
         pending[s][i].route = "toFrontend" /\ pending[s][i].writes = 0
  /\ \A i \in DOMAIN wire.toFrontend :
       LET e == wire.toFrontend[i] IN
       /\ e.from.type \in {"Push", "Response"}
       /\ e.bytes = encodeResponse(
            [result |-> serialize(e.from), rawResult |-> e.from,
             interfaceName |-> "__ipc__", id |-> e.from.channel, status |-> 0])
  /\ \A i \in DOMAIN wire.toBackend :
       wire.toBackend[i].from.type \notin {"Push", "Response"}

\* a Response and a Push have been handed to sendToFrontend
C17_Witness ==
  /\ settled["backend"].fate = "handed"
  /\ Len(wire.toFrontend) = 2
  /\ wire.toFrontend[1].from.type = "Response"
  /\ wire.toFrontend[2].from.type = "Push"

\* the send() calls of a side with envelope e that wait in their async method
Waiting(s, e) == Cardinality({i \in DOMAIN pending[s] : pending[s][i].msg = e})

\* the writes of envelope e the channel transport has taken in direction d
Written(d, e) == Cardinality({i \in DOMAIN wire[d] : wire[d][i].from = e})

\* C18: every send() call of an envelope of one of the four types whose
\* encoding succeeds leads to one write of that envelope to the transport, in
\* the direction of its type, and to no second one: each call is waiting or
\* written, never both and never twice, a waiting call is eventually written,
\* and it is written with nothing consumed or acknowledged by the peer, its
\* caller having seen send() return before.
C18_ExactlyOnceHandoff ==
  /\ [](/\ Len(wire.toBackend) + Len(wire.toFrontend)
           + Len(pending["frontend"]) + Len(pending["backend"]) = messages
        /\ \A s \in Sides :
             /\ \A i \in DOMAIN pending[s] : pending[s][i].callerSaw = "returned"
             /\ settled[s].fate = "handed" =>
                  settled[s].writes = 1 /\ settled[s].callerSaw = "returned")
  /\ \A s \in Sides : \A e \in AppEnvelopes(s) : \A n \in 1..MaxMessages :
       LET d == IF e.type \in {"Send", "Invoke"} THEN "toBackend" ELSE "toFrontend"
       IN (Waiting(s, e) + Written(d, e) >= n) ~> (Written(d, e) >= n)

\* the same envelope has been sent twice and written twice
C18_Witness ==
  \E e \in FrontendEnvelopes :
    /\ Written("toBackend", e) = 2
    /\ pending["frontend"] = <<>>
    /\ settled["frontend"].fate = "handed"

\* C19: consumeRequest handles a request exactly when its
\* operation.interfaceDefinition is the sentinel, whatever its operationName
\* and parameters; of a handled request whose parameters deserialize, the
\* first parameter is the message broadcast, and when the call returns it
\* returns true with that message delivered to every listener registered at
\* its start.
C19_SentinelSoleDiscriminator ==
  LET call == outcome["backend"] IN
  call.kind = "request" =>
    /\ call.ret # "false" <=> call.input.operation.interfaceDefinition = "__ipc__"
    /\ (call.input.operation.interfaceDefinition = "__ipc__" /\ ~Malformed(call)) =>
         /\ call.error # "deserialize"
         /\ call.message = Carried(call)
         /\ \A i \in DOMAIN deliveries["backend"] :
              deliveries["backend"][i].msg = Carried(call)
         /\ call.ret = "true" =>
              \A j \in DOMAIN call.entry :
                /\ j \in DOMAIN deliveries["backend"]
                /\ deliveries["backend"][j].h = call.entry[j]

\* a sentinel-tagged request of another operation name has been broadcast to
\* two listeners
C19_Witness ==
  LET call == outcome["backend"] IN
  /\ call.kind = "request"
  /\ call.input.operation.interfaceDefinition = "__ipc__"
  /\ call.input.operation.operationName = "other"
  /\ call.ret = "true"
  /\ Len(deliveries["backend"]) >= 2
  /\ deliveries["backend"][2].msg = AnEnvelope

\* C20: of a sentinel-tagged fulfillment, consumeResponse broadcasts the
\* value deserialized from its result field and nothing of its rawResult:
\* the deliveries of the call are the listeners in their order, each with
\* the deserialized result, so fulfillments that differ in rawResult only
\* are delivered alike.
C20_ResultNotRawResult ==
  LET call == outcome["frontend"] IN
  (/\ call.kind = "response"
   /\ call.input.interfaceName = "__ipc__"
   /\ "json" \in DOMAIN call.input.result.objects) =>
    /\ call.message = call.input.result.objects.json
    /\ \A i \in DOMAIN deliveries["frontend"] :
         deliveries["frontend"][i] =
           [h |-> listeners["frontend"][i], msg |-> call.input.result.objects.json]

\* a fulfillment whose rawResult is another envelope than its result has
\* been delivered to two listeners
C20_Witness ==
  LET call == outcome["frontend"] IN
  /\ call.kind = "response"
  /\ call.input.interfaceName = "__ipc__"
  /\ call.input.rawResult = AnEnvelope
  /\ call.ret = "true"
  /\ Len(deliveries["frontend"]) >= 2
  /\ deliveries["frontend"][2].msg = AReply

\* the first send() call of a side still waiting with an envelope for direction d
FirstWaiting(s, d) ==
  CHOOSE i \in DOMAIN pending[s] :
    /\ pending[s][i].route = d
    /\ \A j \in 1..(i - 1) : pending[s][j].route # d

\* C21: envelopes of one direction are handed to the channel transport in
\* the order of their send() calls, whichever encoding completes first: a
\* write in a direction is the write of the earliest send() call still
\* waiting for that direction.
C21_OutboundOrder ==
  [][\A d \in Directions :
       Len(wire'[d]) > Len(wire[d]) =>
         \E s \in Sides :
           /\ \E i \in DOMAIN pending[s] : pending[s][i].route = d
           /\ wire'[d][Len(wire'[d])].from = pending[s][FirstWaiting(s, d)].msg]_vars

\* C22: the MobileRpcRequest that sendToBackend created is disposed on every
\* path by which the call ends, also when encodeRequest or the transport
\* write fails, and it is disposed only after its encoded form was handed to
\* the transport.
C22_RequestDisposed ==
  \A s \in Sides :
    LET call == settled[s] IN
    (call.route = "toBackend" /\ call.fate # "none") =>
      /\ call.disposed
      /\ call.fate = "handed" => call.writes = 1

\* C23: send() of an envelope whose type is none of Send, Invoke, Push and
\* Response returns to its caller with nothing started: no call of that
\* envelope waits or is written in either direction, and the send() call
\* leaves the listeners, the deliveries, the inbound call and the waiting
\* sends as they were.
C23_UnknownTypeIgnored ==
  [][/\ messages' # messages =>
          /\ wire' = wire
          /\ listeners' = listeners
          /\ deliveries' = deliveries
          /\ visiting' = visiting
          /\ outcome' = outcome
     /\ \A s \in Sides :
          /\ \A i \in DOMAIN pending'[s] :
               pending'[s][i].msg.type \in {"Send", "Invoke", "Push", "Response"}
          /\ (/\ settled'[s].fate # "none"
              /\ settled'[s].msg.type \notin {"Send", "Invoke", "Push", "Response"}) =>
               /\ settled'[s].fate = "ignored"
               /\ settled'[s].callerSaw = "returned"
               /\ settled'[s].writes = 0
               /\ settled'[s].built = Undefined
               /\ settled'[s] # settled[s] => pending' = pending /\ wire' = wire
     /\ \A d \in Directions : \A i \in DOMAIN wire'[d] :
          wire'[d][i].from.type \in {"Send", "Invoke", "Push", "Response"}]_vars

\* an envelope of unknown type was sent on a side with a listener and a
\* send waiting
C23_Witness ==
  \E s \in Sides :
    /\ settled[s].fate = "ignored"
    /\ settled[s].msg.type = "Other"
    /\ listeners[s] # <<>>
    /\ pending[s] # <<>>

\* C24: a listener that throws ends the call by its exception: the call
\* does not return true, the listeners after the throwing one are not
\* invoked for that envelope, and the listeners registered before the call
\* are all still registered, in their order; the next inbound envelope is
\* delivered to every one of them in the order of registration.
C24_ThrowingListener ==
  \A s \in Sides :
    LET call == outcome[s] IN
    /\ call.error = "listener" =>
         /\ call.ret = "threw"
         /\ visiting[s] = 0
         /\ deliveries[s] # <<>>
         /\ \A i \in DOMAIN deliveries[s] :
              /\ i \in DOMAIN listeners[s]
              /\ deliveries[s][i].h = listeners[s][i]
         /\ SubSeq(listeners[s], 1, Len(call.entry)) = call.entry
    /\ (before[s] = "listener" /\ Tagged(call) /\ ~Malformed(call)) =>
         /\ call.entry # <<>>
         /\ \A j \in DOMAIN call.entry : call.entry[j] = j
         /\ call.ret = "true" =>
              \A j \in DOMAIN call.entry :
                /\ j \in DOMAIN deliveries[s]
                /\ deliveries[s][j] = [h |-> j, msg |-> Carried(call)]

\* the first of two listeners threw, and the next envelope has reached both
C24_Witness ==
  \E s \in Sides :
    /\ before[s] = "listener"
    /\ Tagged(outcome[s]) /\ ~Malformed(outcome[s])
    /\ outcome[s].ret = "true"
    /\ Len(outcome[s].entry) >= 2
    /\ Len(deliveries[s]) >= 2

\* C25: an upload with contentEncoding "gzip" whose pipeline and blob write
\* have both reported success resolves with the blob's etag, whichever
\* callback fired first; it is rejected only when the pipeline reported an
\* error, or the blob service an error or an unsuccessful response.
C25_GzipUploadResolves ==
  (blobUpload.gzip /\ blobUpload.pc = "streaming") =>
    LET p == blobUpload.pipelineSaid
        b == blobUpload.blobSaid
    IN /\ (/\ p.called /\ p.err = Undefined
           /\ b.called /\ b.error = Undefined /\ b.isSuccessful) =>
            blobUpload.promise =
              [state |-> "resolved", etag |-> b.etag, reason |-> Undefined]
       /\ blobUpload.promise.state = "rejected" =>
            \/ p.called /\ p.err # Undefined
            \/ b.called /\ (b.error # Undefined \/ ~b.isSuccessful)

\* the number of 4 MiB blocks of a file: ceil(fileSize / 4 MiB)
BlocksOf(fileSize) == (fileSize + 4194303) \div 4194304

\* C26: uploadFile puts the blocks 0..n-1 of the file, n = ceil(fileSize /
\* 4 MiB), one after another in increasing index, each after the one before
\* it has completed; the block list is put only after all n blocks have
\* completed and names the ids of blocks 0..n-1 in that order; when a block
\* upload fails (its read or its request, or the open of the file before
\* them) no block list is put and the promise rejects.
C26_BlocksThenBlockList ==
  LET n == BlocksOf(fileUpload.fileSize)
      requests == fileUpload.requests
  IN
  /\ \A k \in DOMAIN requests :
       IF requests[k].comp = "block"
       THEN /\ k <= n
            /\ requests[k].blockid = [base64 |-> <<0, 0, 0, 0, k - 1>>]
            /\ requests[k].completed = k - 1
       ELSE /\ k = n + 1
            /\ requests[k].completed = n
            /\ requests[k].body = [j \in 1..n |-> [base64 |-> <<0, 0, 0, 0, j - 1>>]]
  /\ fileUpload.pc \in {"commit", "resolved"} => Len(requests) = n + 1
  /\ fileUpload.reason \in {"open", "read", "block"} =>
       /\ fileUpload.pc = "rejected"
       /\ \A k \in DOMAIN requests : requests[k].comp = "block"

\* a file of two blocks and one byte has been uploaded in three blocks and
\* committed
C26_Witness ==
  /\ fileUpload.pc = "resolved"
  /\ fileUpload.i = 3
  /\ fileUpload.fileSize = 2 * 4194304 + 1
  /\ Len(fileUpload.requests) = 4

\* C27: an export appends one line per recorded entry, in addEntry order, and
\* each line lists the entry's fields in the order of the header's columns:
\* testSuite, testName, valueName, value, info.
C27_RowsFollowHeader ==
  [][\A f \in files' :
       f \notin files =>
         LET old == fileAt(files, f.path).text
             new == f.text
             first == Len(old) + (IF old # <<>> THEN 1 ELSE 2)
             rows == SubSeq(new, first, Len(new)) IN
         rows = [k \in 1..Len(entries) |->
                   <<entries[k].testSuite, entries[k].testName, entries[k].valueName,
                     ToString(entries[k].value), String(entries[k].info)>>]]_vars

\* C28: whatever addEntry and exportCSV calls were made, a report file has the
\* header line exactly once, as its first line; a name with the .csv suffix and
\* the same name without it are written to one file, the suffixed one; and an
\* export leaves the recorded entries as they were.
C28_HeaderOnce ==
  [][/\ \A f \in files' :
          /\ Len(f.text) >= 1
          /\ f.text[1] = Header
          /\ Cardinality({k \in 1..Len(f.text) : f.text[k] = Header}) = 1
          /\ f.path[Len(f.path)] = ".csv"
          /\ \A n \in f.names : n = f.path \/ Append(n, ".csv") = f.path
     /\ files' # files => entries' = entries]_vars

\* a file that exports under both spellings of its name appended entries to
C28_Witness ==
  \E f \in files :
    /\ f.names = {f.path, SubSeq(f.path, 1, Len(f.path) - 1)}
    /\ Len(f.text) >= 3
    /\ Len(entries) >= 1
====
